---- MODULE Spec2Model ----
(***************************************************************************)
(* A state-machine model of RubberBand's R3 stretcher                      *)
(* (src/finer/R3Stretcher.cpp): the mode machine, the ratio setters, the   *)
(* key-frame map, the hop scheduler, the input/output ring bookkeeping and *)
(* the frame loop (consume).                                               *)
(*                                                                         *)
(* Sample values are not modelled: a ring buffer is its capacity and its   *)
(* read space, which is all that the control flow of the stretcher reads.  *)
(* Ratios are exact rationals <<n, d>> in lowest terms; <<1, 0>> stands    *)
(* for +infinity and <<0, 0>> for NaN, the two values an integer quotient  *)
(* with a zero divisor takes in IEEE double arithmetic.                    *)
(***************************************************************************)
EXTENDS Integers, Sequences, FiniteSets, TLC

(***************************************************************************)
(* Bounds of the model.                                                    *)
(***************************************************************************)
\* Number of API calls a client makes on one instance in a behaviour.
MaxCalls == 4

(***************************************************************************)
(* Program constants.                                                      *)
(***************************************************************************)
\* m_parameters.channels
channels == 2
Chans == 1..channels
\* m_guideConfiguration.longestFftSize: the Guide rounds sampleRate / 16 up
\* to a power of two, which is 1024 for a 16 kHz stream
longestFftSize == 1024
\* inRingBufferSize, outRingBufferSize of the constructor
inRingBufferSize == longestFftSize * 2
outRingBufferSize == longestFftSize * 16

(***************************************************************************)
(* The values clients pass in.                                             *)
(***************************************************************************)
TimeRatios == { <<1, 4>> }
PitchScales == { <<1, 2>> }
\* The constructor's arguments: realtime, high consistency, initial time
\* ratio, initial pitch scale
Profiles ==
    { << FALSE, FALSE, <<1, 1>>, <<1, 1>> >>,
      << FALSE, FALSE, <<1, 4>>, <<1, 1>> >>,
      << FALSE, TRUE,  <<1, 1>>, <<1, 2>> >>,
      << TRUE,  FALSE, <<1, 1>>, <<1, 1>> >>,
      << TRUE,  TRUE,  <<1, 4>>, <<1, 2>> >> }
FormantScales == { <<1, 1>> }
StudySizes == { 1500 }
ExpectedDurations == { 1 }
ProcessSizes == { 3000, 18000 }
BlockSizes == { 1 }
RequestSizes == { 600 }
RetrieveSizes == { 600, 20000 }
MaxProcessSizes == { 4000 }
\* A key-frame map is a function from input sample index to output index.
EmptyMap == [k \in {} |-> 0]
KeyFrameMaps ==
    { EmptyMap,
      [k \in {1000, 2000} |-> IF k = 1000 THEN 2000 ELSE 2500] }
\* Key-frame maps with three keys, with a key beyond the first block, with a
\* first output index of 0, with a first input index of 0, and with the
\* origin as first entry
SteppedMap ==
    [k \in {500, 1000, 4000} |->
        IF k = 500 THEN 1000 ELSE IF k = 1000 THEN 2000 ELSE 4500]
FarMap == [k \in {500, 4000} |-> IF k = 500 THEN 1000 ELSE 4500]
ZeroOutputMap == [k \in {1000} |-> 0]
ZeroInputMap == [k \in {0} |-> 2000]
OriginMap == [k \in {0} |-> 0]
MapInputs ==
    KeyFrameMaps
    \cup { SteppedMap, FarMap, ZeroOutputMap, ZeroInputMap, OriginMap }
MapBlockSizes == { 1, 3000 }
LoopSizes == { 3000, 16000 }
HopBlockSizes == { 1500 }
RaceSizes == { 2000 }
\* m_parameters.sampleRate
sampleRate == 16000
\* What a frame's guidance says about transients: the FFT size of the lowest
\* band, and whether the frame precedes a transient, carries one, or
\* neither; the pre-kick range starts at 0 Hz and ends at one of two
\* frequencies. mag[i] - prevMag[i] is one value for the bins of the range.
KickFftSizes == { longestFftSize \div 2, longestFftSize }
KickKinds == { "none", "preKick", "kick" }
PreKickEnds == { 16, 48 }
Rises == { 0, 1 }
Guidances ==
    { [ fftSize |-> n,
        preKick |-> [ present |-> k = "preKick", f0 |-> 0, f1 |-> f ],
        kick |-> [ present |-> k = "kick" ] ] :
      n \in KickFftSizes, k \in KickKinds, f \in PreKickEnds }
FramePitchScales == PitchScales \cup { <<1, 1>> }

Modes == { "JustCreated", "Studying", "Processing", "Finished" }

(***************************************************************************)
(* Rational arithmetic standing for the code's doubles.                    *)
(***************************************************************************)
RECURSIVE GCD(_, _)
GCD(a, b) == IF b = 0 THEN a ELSE GCD(b, a % b)

\* n/d in lowest terms; n, d >= 0.
Rat(n, d) ==
    IF d = 0 THEN (IF n = 0 THEN <<0, 0>> ELSE <<1, 0>>)
    ELSE IF n = 0 THEN <<0, 1>>
    ELSE LET g == GCD(n, d) IN <<n \div g, d \div g>>

RMul(a, b) == Rat(a[1] * b[1], a[2] * b[2])
IsNaN(r) == r[1] = 0 /\ r[2] = 0
IsInf(r) == r[1] > 0 /\ r[2] = 0
\* a < b, a > b for finite non-negative rationals
RLess(a, b) == a[1] * b[2] < b[1] * a[2]

\* round(x * r) for an integer x >= 0 and a finite ratio r (C's round: halves
\* away from zero)
RoundMul(x, r) == (2 * x * r[1] + r[2]) \div (2 * r[2])
\* round(x / r) for an integer x >= 0 and a finite ratio r > 0
RoundDiv(x, r) == (2 * x * r[2] + r[1]) \div (2 * r[1])

(***************************************************************************)
(* Hop scheduling.                                                         *)
(***************************************************************************)
\* getEffectiveRatio(): timeRatio * pitchScale
getEffectiveRatio(tr, ps) == RMul(tr, ps)

\* pow(2.0, 8.0 + 2.0 * log10(x)), in thousandths, at the arguments the
\* ratios of this model reach inside the unclamped range
Pow2Log10Milli(x) ==
    CASE x = <<1, 2>> -> 168656
      [] x = <<3, 2>> -> 326782
      [] x = <<5, 2>> -> 444451
      [] x = <<3, 4>> -> 215288
      [] x = <<3, 8>> -> 141834
      [] x = <<9, 14>> -> 196206
      [] x = <<9, 28>> -> 129263
      [] x = <<2, 5>> -> 147454
      [] x = <<4, 5>> -> 223818
      [] x = <<5, 14>> -> 137729
      [] x = <<5, 7>> -> 209056
      [] x = <<7, 16>> -> 155628
      [] x = <<7, 8>> -> 236225
      [] x = <<5, 12>> -> 151123
      [] x = <<5, 6>> -> 229387

\* proposedOuthop of calculateHop after its clamp to [128, 512], in
\* thousandths. pow(2, 8 + 2 log10 x) is below 128 when x*x < 1/10 and above
\* 512 when x*x > 10; NaN fails both comparisons and keeps 256.
proposedOuthopMilli(ratio) ==
    IF IsNaN(ratio) THEN 256000
    ELSE IF IsInf(ratio) THEN 512000
    ELSE IF RLess(<<3, 2>>, ratio) THEN
        LET x == Rat(2 * ratio[1] - ratio[2], 2 * ratio[2])
        IN  IF x[1] * x[1] >= 10 * x[2] * x[2] THEN 512000
            ELSE Pow2Log10Milli(x)
    ELSE IF RLess(ratio, <<1, 1>>) THEN
        IF 10 * ratio[1] * ratio[1] <= ratio[2] * ratio[2] THEN 128000
        ELSE Pow2Log10Milli(ratio)
    ELSE 256000

\* calculateHop(): the value stored in m_inhop, for a ratio that is a number
\* (StoredHops below covers NaN)
calculateHop(tr, ps) ==
    LET ratio == getEffectiveRatio(tr, ps)
        p == proposedOuthopMilli(ratio)
    IN  IF IsInf(ratio) THEN 1
        ELSE IF ratio[1] = 0 THEN 1024
        ELSE LET ideal == (p * ratio[2]) \div (1000 * ratio[1])
             IN  IF ideal < 1 THEN 1
                 ELSE IF ideal >= 1024 THEN 1024
                 ELSE ideal

\* int(floor(NaN)): the conversion is undefined; builds give the most
\* negative int or 0
NaNInts == { -2147483647 - 1, 0 }

\* m_inhop = int(floor(inhop)): the values calculateHop() can leave in
\* m_inhop. A NaN ratio fails every comparison of calculateHop, so that
\* inhop is 256 / NaN and its conversion to int is undefined.
StoredHops(tr, ps) ==
    IF IsNaN(getEffectiveRatio(tr, ps)) THEN NaNInts
    ELSE { calculateHop(tr, ps) }

\* StretchCalculator::calculateSingle: the output hop for one consume()
\* call. The calculator follows inhop * timeRatio / effectivePitchRatio and
\* rounds it down or up from call to call to keep to the ratio.
calculateSingle(tr, ps, hop, up) ==
    LET ratio == getEffectiveRatio(tr, ps)
    IN  IF ratio[2] = 0 \/ hop < 0 THEN 0
        ELSE LET num == hop * ratio[1]
                 lo == num \div ratio[2]
             IN  IF up /\ num % ratio[2] # 0 THEN lo + 1 ELSE lo

\* Resampler::resample: the number of samples it returns for incount
\* samples at ratio 1 / pitchScale, rounded down or up.
resample(incount, ps, up) ==
    LET num == incount * ps[2]
        lo == num \div ps[1]
    IN  IF up /\ num % ps[1] # 0 THEN lo + 1 ELSE lo

(***************************************************************************)
(* RingBuffer: capacity and read space.                                    *)
(***************************************************************************)
Min(a, b) == IF a < b THEN a ELSE b
Max(a, b) == IF a > b THEN a ELSE b
\* RingBuffer::write / zero: read space after writing n samples
RingWrite(size, rs, n) == rs + Min(Max(n, 0), size - rs)
\* RingBuffer::skip / read: the number of samples that leave the buffer
RingTake(rs, n) == Min(Max(n, 0), rs)

VARIABLES
    realtime,                \* m_parameters.options & OptionProcessRealTime
    highConsistency,         \* m_parameters.options & OptionPitchHighConsistency
    timeRatio,               \* m_timeRatio
    pitchScale,              \* m_pitchScale
    formantScale,            \* m_formantScale
    inhop,                   \* m_inhop
    prevInhop,               \* m_prevInhop
    prevOuthop,              \* m_prevOuthop
    unityCount,              \* m_unityCount
    startSkip,               \* m_startSkip
    studyInputDuration,      \* m_studyInputDuration
    suppliedInputDuration,   \* m_suppliedInputDuration
    totalTargetDuration,     \* m_totalTargetDuration
    consumedInputDuration,   \* m_consumedInputDuration
    lastKeyFrameSurpassed,   \* m_lastKeyFrameSurpassed
    totalOutputDuration,     \* m_totalOutputDuration
    mode,                    \* m_mode
    keyFrameMap,             \* m_keyFrameMap
    haveResampler,           \* m_resampler != nullptr
    inSize,                  \* m_channelData[c]->inbuf->getSize()
    inRead,                  \* m_channelData[c]->inbuf->getReadSpace()
    outRead,                 \* m_channelData[c]->outbuf->getReadSpace()
    accumulatorFill,         \* m_channelData[c]->scales[s]->accumulatorFill
    imbalanceLogged,         \* "channel imbalance detected" was logged
    lastOp,                  \* the API call made last
    rejected,                \* that call returned at a misuse check
    lastOuthop,              \* outhop of the latest consume() call
    formantPreserved,        \* m_parameters.options & OptionFormantPreserved
    frameLog,                \* the steps of the latest frame, in order
    lastFrame,               \* the locals of the latest pass of the loop
    pc,                      \* "consume" while a call is inside the loop of
                             \* consume(), "idle" between calls
    ctx,                     \* the locals consume() set before its loop
    haveReadahead,           \* cd->haveReadahead of each channel
    readaheadHop,            \* the input hop of the frame that produced the
                             \* readahead
    setter,                  \* where the control thread is inside a setter:
                             \* "stored" between the store of the new ratio
                             \* and calculateHop(), else "idle"
    guidance,                \* cd->guidance of each channel
    pendingKick,             \* scale->pendingKick of each channel and scale
    kickBalance,             \* what pre-kick frames took from scale->mag and
                             \* kick frames have not added back
    clientTimeRatio,         \* the time ratio the client passed in last
    calls                    \* API calls made so far

vars == << realtime, highConsistency, timeRatio, pitchScale, formantScale,
           inhop, prevInhop, prevOuthop, unityCount, startSkip,
           studyInputDuration, suppliedInputDuration, totalTargetDuration,
           consumedInputDuration, lastKeyFrameSurpassed, totalOutputDuration,
           mode, keyFrameMap, haveResampler, inSize, inRead, outRead,
           accumulatorFill, imbalanceLogged, lastOp, rejected,
           lastOuthop, formantPreserved, frameLog, lastFrame, pc, ctx,
           haveReadahead, readaheadHop, setter, guidance, pendingKick,
           kickBalance, clientTimeRatio, calls >>

(***************************************************************************)
(* Construction.                                                           *)
(***************************************************************************)
isRealTime == realtime

\* The locals consume() sets before its loop, while no call is in the loop
NoContext ==
    [ inhop |-> 0, outhop |-> 0, ratio |-> <<1, 1>>, pitchScale |-> <<1, 1>>,
      resampler |-> FALSE, hc |-> FALSE, up |-> FALSE, rt |-> FALSE,
      target |-> 0, mode |-> "JustCreated" ]

\* The locals of a pass of the loop of consume(), before any pass was made
NoFrame ==
    [ readSpace |-> 0, writeSpace |-> 0, writeCount |-> 0,
      advanceCount |-> 0, resampling |-> FALSE, final |-> FALSE,
      draining |-> FALSE, unityCount |-> [c \in Chans |-> 0],
      prevInhop |-> 0, prevOuthop |-> 0,
      hadReadahead |-> [c \in Chans |-> FALSE],
      reused |-> [c \in Chans |-> FALSE] ]

\* int(round(m_inhop * getEffectiveRatio())), as the constructor and reset
\* compute m_prevOuthop
InitialPrevOuthop(hop, tr, ps) == RoundMul(hop, getEffectiveRatio(tr, ps))

\* binForFrequency: round(f * fftSize / sampleRate)
binForFrequency(f, fftSize) ==
    (2 * f * fftSize + sampleRate) \div (2 * sampleRate)

\* The bins a pre-kick range can reach
KickBins == 0 .. 3

\* The guidance and the pendingKick buffers of a fresh channel
NoGuidance ==
    [ fftSize |-> longestFftSize,
      preKick |-> [ present |-> FALSE, f0 |-> 0, f1 |-> 0 ],
      kick |-> [ present |-> FALSE ] ]
NoKick == [n \in KickFftSizes |-> [i \in KickBins |-> 0]]

Init ==
    /\ \E p \in Profiles :
          /\ realtime = p[1]
          /\ highConsistency = p[2]
          /\ timeRatio = p[3]
          /\ pitchScale = p[4]
    /\ formantScale = <<0, 1>>
    /\ inhop = calculateHop(timeRatio, pitchScale)
    /\ prevInhop = inhop
    /\ prevOuthop = InitialPrevOuthop(inhop, timeRatio, pitchScale)
    /\ unityCount = 0
    /\ startSkip = 0
    /\ studyInputDuration = 0
    /\ suppliedInputDuration = 0
    /\ totalTargetDuration = 0
    /\ consumedInputDuration = 0
    /\ lastKeyFrameSurpassed = 0
    /\ totalOutputDuration = 0
    /\ mode = "JustCreated"
    /\ keyFrameMap = EmptyMap
    /\ haveResampler = realtime
    /\ inSize = [c \in Chans |-> inRingBufferSize]
    /\ inRead = [c \in Chans |-> 0]
    /\ outRead = [c \in Chans |-> 0]
    /\ accumulatorFill = [c \in Chans |-> 0]
    /\ imbalanceLogged = FALSE
    /\ lastOp = "construct"
    /\ rejected = FALSE
    /\ lastOuthop = 0
    /\ formantPreserved = FALSE
    /\ frameLog = << >>
    /\ lastFrame = NoFrame
    /\ pc = "idle"
    /\ ctx = NoContext
    /\ haveReadahead = [c \in Chans |-> FALSE]
    /\ readaheadHop = 0
    /\ setter = "idle"
    /\ guidance = [c \in Chans |-> NoGuidance]
    /\ pendingKick = [c \in Chans |-> NoKick]
    /\ kickBalance = [c \in Chans |-> NoKick]
    /\ clientTimeRatio = timeRatio
    /\ calls = 0

\* What an API call leaves behind for the observer.
Called(op, rej) ==
    /\ calls < MaxCalls
    /\ calls' = calls + 1
    /\ lastOp' = op
    /\ rejected' = rej

params == << realtime, highConsistency, formantPreserved >>
loop == << pc, ctx >>
kicks == << guidance, pendingKick, kickBalance >>
control == << setter >>
ratios == << timeRatio, pitchScale, formantScale, inhop >>
hops == << prevInhop, prevOuthop, unityCount, startSkip, lastOuthop,
          frameLog, lastFrame, haveReadahead, readaheadHop >>
counters == << studyInputDuration, suppliedInputDuration, totalTargetDuration,
               consumedInputDuration, lastKeyFrameSurpassed,
               totalOutputDuration >>
rings == << inSize, inRead, outRead, accumulatorFill, imbalanceLogged >>

(***************************************************************************)
(* The ratio setters and setKeyFrameMap.                                   *)
(***************************************************************************)
\* A misuse check that forgets the Processing mode
SetterRejectedStudyingOnly ==
    ~realtime /\ mode = "Studying"

\* The misuse check of setTimeRatio, setPitchScale and setFormantScale
SetterRejected ==
    ~isRealTime /\ (mode = "Studying" \/ mode = "Processing")

setTimeRatio(ratio) ==
    /\ IF SetterRejected
       THEN /\ UNCHANGED << timeRatio, inhop, clientTimeRatio >>
            /\ Called("setTimeRatio", TRUE)
       ELSE /\ timeRatio' = ratio
            /\ inhop' \in IF ratio = timeRatio THEN { inhop }
                          ELSE StoredHops(ratio, pitchScale)
            /\ clientTimeRatio' = ratio
            /\ Called("setTimeRatio", FALSE)
    /\ UNCHANGED << params, kicks, control, loop, pitchScale, formantScale,
                    hops, counters, rings, mode, keyFrameMap, haveResampler >>

setPitchScale(scale) ==
    /\ IF SetterRejected
       THEN /\ UNCHANGED << pitchScale, inhop >>
            /\ Called("setPitchScale", TRUE)
       ELSE /\ pitchScale' = scale
            /\ inhop' \in IF scale = pitchScale THEN { inhop }
                          ELSE StoredHops(timeRatio, scale)
            /\ Called("setPitchScale", FALSE)
    /\ UNCHANGED << params, kicks, control, loop, timeRatio, formantScale,
                    hops, counters, rings, mode, keyFrameMap, haveResampler,
                    clientTimeRatio >>

setFormantScale(scale) ==
    /\ IF SetterRejected
       THEN /\ UNCHANGED formantScale
            /\ Called("setFormantScale", TRUE)
       ELSE /\ formantScale' = scale
            /\ Called("setFormantScale", FALSE)
    /\ UNCHANGED << params, kicks, control, loop, timeRatio, pitchScale, inhop,
                    hops, counters, rings, mode, keyFrameMap, haveResampler,
                    clientTimeRatio >>

\* setFormantOption(): replaces the formant bits of the options
setFormantOption(preserved) ==
    /\ formantPreserved' = preserved
    /\ Called("setFormantOption", FALSE)
    /\ UNCHANGED << realtime, highConsistency, loop, kicks, control, ratios,
                    hops, counters, rings, mode, keyFrameMap, haveResampler,
                    clientTimeRatio >>

\* Misuse checks that forget the mode
KeyFrameMapRejectedRealtimeOnly == realtime

\* The misuse checks of setKeyFrameMap
KeyFrameMapRejected ==
    isRealTime \/ mode = "Processing" \/ mode = "Finished"

setKeyFrameMap(mapping) ==
    /\ IF KeyFrameMapRejected
       THEN /\ UNCHANGED keyFrameMap
            /\ Called("setKeyFrameMap", TRUE)
       ELSE /\ keyFrameMap' = mapping
            /\ Called("setKeyFrameMap", FALSE)
    /\ UNCHANGED << params, kicks, control, loop, ratios, hops, counters,
                    rings, mode, haveResampler, clientTimeRatio >>

(***************************************************************************)
(* study and setExpectedInputDuration.                                     *)
(***************************************************************************)
\* Misuse checks that forget the mode
StudyRejectedRealtimeOnly == realtime

\* The misuse checks of study
StudyRejected ==
    isRealTime \/ mode = "Processing" \/ mode = "Finished"

\* A study() that keeps only the latest block's length
StudiedDurationLast(m, studied, samples) == samples

\* m_studyInputDuration after an accepted study() call
StudiedDuration(m, studied, samples) ==
    (IF m = "JustCreated" THEN 0 ELSE studied) + samples

study(samples) ==
    /\ IF StudyRejected
       THEN /\ UNCHANGED << mode, studyInputDuration >>
            /\ Called("study", TRUE)
       ELSE /\ mode' = "Studying"
            /\ studyInputDuration' =
                 StudiedDuration(mode, studyInputDuration, samples)
            /\ Called("study", FALSE)
    /\ UNCHANGED << params, kicks, control, loop, ratios, hops,
                    suppliedInputDuration, totalTargetDuration,
                    consumedInputDuration, lastKeyFrameSurpassed,
                    totalOutputDuration, rings, keyFrameMap, haveResampler,
                    clientTimeRatio >>

setExpectedInputDuration(samples) ==
    /\ suppliedInputDuration' = samples
    /\ Called("setExpectedInputDuration", FALSE)
    /\ UNCHANGED << params, kicks, control, loop, ratios, hops,
                    studyInputDuration, totalTargetDuration,
                    consumedInputDuration, lastKeyFrameSurpassed,
                    totalOutputDuration, rings, mode, keyFrameMap,
                    haveResampler, clientTimeRatio >>

(***************************************************************************)
(* The key-frame map.                                                      *)
(***************************************************************************)
\* std::map::lower_bound: the least key not less than x, or -1 for end()
UpperBoundInclusive(m, x) ==
    LET from == { k \in DOMAIN m : k >= x }
    IN  IF from = {} THEN -1
        ELSE CHOOSE k \in from : \A j \in from : k <= j

\* std::map::upper_bound: the least key greater than x, or -1 for end()
UpperBound(m, x) ==
    LET above == { k \in DOMAIN m : k > x }
    IN  IF above = {} THEN -1
        ELSE CHOOSE k \in above : \A j \in above : k <= j

FirstKey(m) == CHOOSE k \in DOMAIN m : \A j \in DOMAIN m : k <= j

\* A test that takes every pending key frame as passed
SurpassesAlways(consumed, key) == TRUE

\* if (m_consumedInputDuration >= i0->first)
Surpasses(consumed, key) == consumed >= key

\* updateRatioFromMap(): the time ratio and lastKeyFrameSurpassed it leaves,
\* given the counters at the time of the call, and whether it called
\* calculateHop() (inhop is then the hop of a ratio that is a number)
updateRatioFromMap(m, tr, ps, hop, consumed, surpassed, studied, target) ==
    LET same == [timeRatio |-> tr, inhop |-> hop,
                 lastKeyFrameSurpassed |-> surpassed, recalculated |-> FALSE]
    IN
    IF DOMAIN m = {} THEN same
    ELSE IF consumed = 0 THEN
        LET r == Rat(m[FirstKey(m)], FirstKey(m))
        IN  [timeRatio |-> r, inhop |-> calculateHop(r, ps),
             lastKeyFrameSurpassed |-> 0, recalculated |-> TRUE]
    ELSE
        LET i0 == UpperBound(m, surpassed)
        IN
        IF i0 = -1 THEN same
        ELSE IF Surpasses(consumed, i0) THEN
            LET i1 == UpperBound(m, consumed)
                keyFrameAtInput == IF i1 # -1 THEN i1 ELSE studied
                keyFrameAtOutput == IF i1 # -1 THEN m[i1] ELSE target
                toKeyFrameAtInput == keyFrameAtInput - i0
                toKeyFrameAtOutput ==
                    IF keyFrameAtOutput > m[i0]
                    THEN keyFrameAtOutput - m[i0] ELSE 1
                ratio == IF keyFrameAtInput > i0
                         THEN Rat(toKeyFrameAtOutput, toKeyFrameAtInput)
                         ELSE <<1, 1>>
            IN  [timeRatio |-> ratio, inhop |-> calculateHop(ratio, ps),
                 lastKeyFrameSurpassed |-> i0, recalculated |-> TRUE]
        ELSE same

(***************************************************************************)
(* The frame loop.                                                         *)
(***************************************************************************)
\* fabs(ratio - 1.0) < 1.0e-7
NearUnity(ratio) ==
    /\ ratio[2] > 0
    /\ (IF ratio[1] >= ratio[2] THEN ratio[1] - ratio[2]
        ELSE ratio[2] - ratio[1]) <= (ratio[2] - 1) \div 10000000

\* m_unityCount as analyseChannel(c) passes it to updateGuidance, count being
\* its value when the frame starts
GuideUnityCount(c, count, unity) == IF unity THEN count + c ELSE 0

\* analyseChannel, run for each channel in turn: what it does to m_unityCount
RECURSIVE analyseChannels(_, _, _)
analyseChannels(c, count, unity) ==
    IF c > channels THEN count
    ELSE analyseChannels(c + 1, IF unity THEN count + 1 ELSE 0, unity)

\* synthesiseChannel: what it does to a scale's accumulatorFill
synthesiseChannel(fill, outhop, draining) ==
    IF draining
    THEN (IF fill > outhop THEN fill - outhop ELSE 0)
    ELSE longestFftSize

\* A test that leaves the high-consistency option out
ResamplingPitchOnly(resampler, ps, hc) == resampler /\ ps # <<1, 1>>

\* Whether a frame's mixdown goes through the resampler
Resampling(resampler, ps, hc) ==
    resampler /\ (ps # <<1, 1>> \/ hc)

\* A writeCount that is never cut to the target duration
WriteCountUncut(count, rt, target, total) == count

\* writeCount of a frame: the output hop or the resampled count, cut in
\* offline mode to what is left of the target duration
WriteCount(count, rt, target, total) ==
    IF ~rt /\ target > 0 /\ total + count > target
    THEN target - total
    ELSE count

\* Checks that do not wait for a whole frame of input before the final block
FrameReadyNoWait(readSpace, m, fill) == ~(readSpace = 0 /\ fill = 0)

\* The checks at the top of the loop body: TRUE when the loop goes on to
\* process a frame
FrameReady(readSpace, m, fill) ==
    IF readSpace < longestFftSize
    THEN (IF m = "Finished"
          THEN ~(readSpace = 0 /\ fill = 0)
          ELSE FALSE)
    ELSE TRUE

\* A start skip that leaves every channel but the first unskipped
SkipStartFirstChannel(written, toSkip) ==
    [c \in Chans |-> IF c = 1 THEN written[c] - RingTake(written[c], toSkip)
                     ELSE written[c]]

\* for (c...) outbuf->skip(toSkip): the read spaces of the output rings
\* after the start skip
SkipStart(written, toSkip) ==
    [c \in Chans |-> written[c] - RingTake(written[c], toSkip)]

\* A phase advance and a Guide that are given the current frame's hops
AdvanceHopsCurrent(s, cx) == [ inhop |-> cx.inhop, outhop |-> cx.outhop ]

\* The hops analyseChannel, updateGuidance and guided.advance are given:
\* m_prevInhop and m_prevOuthop
AdvanceHops(s, cx) == [ inhop |-> s.prevInhop, outhop |-> s.prevOuthop ]

\* A readahead that is taken as valid whenever there is one
haveValidReadaheadAlways(have, hop, prevHop) == have

\* haveValidReadahead of analyseChannel: there is a readahead and inhop is
\* the prevInhop the channel's analysis was given
haveValidReadahead(have, hop, prevHop) == have /\ hop = prevHop

\* One pass of the loop body of consume(), from the analysis to the update
\* of m_prevInhop and m_prevOuthop. s holds the members the loop changes,
\* cx the values that stay fixed during the call.
Frame(s, cx) ==
    LET readSpace == s.inRead[1]
        draining == readSpace = 0
        unity == NearUnity(cx.ratio)
        resampling == Resampling(cx.resampler, cx.pitchScale, cx.hc)
        resampledCount == IF resampling
                          THEN resample(cx.outhop, cx.pitchScale, cx.up)
                          ELSE 0
        writeCount == WriteCount(IF resampling THEN resampledCount
                                 ELSE cx.outhop,
                                 cx.rt, cx.target, s.totalOutputDuration)
        advanceCount == IF cx.inhop > readSpace THEN readSpace ELSE cx.inhop
        written == [c \in Chans |->
                      RingWrite(outRingBufferSize, s.outRead[c], writeCount)]
        rs == written[1]
        toSkip == IF s.startSkip > 0 THEN Min(s.startSkip, rs) ELSE 0
        flush == cx.mode = "Finished" /\ readSpace < cx.inhop
    IN  [ inRead |-> [c \in Chans |->
                        s.inRead[c] - RingTake(s.inRead[c], advanceCount)],
          outRead |-> SkipStart(written, toSkip),
          accumulatorFill |-> [c \in Chans |->
                         synthesiseChannel(s.accumulatorFill[c], cx.outhop,
                                           draining)],
          unityCount |-> analyseChannels(1, s.unityCount, unity),
          consumedInputDuration |-> s.consumedInputDuration + advanceCount,
          totalOutputDuration |->
              IF s.startSkip > 0 THEN rs - toSkip
              ELSE s.totalOutputDuration + writeCount,
          startSkip |-> s.startSkip - toSkip,
          prevInhop |-> cx.inhop,
          prevOuthop |-> cx.outhop,
          haveReadahead |-> [c \in Chans |-> TRUE],
          readaheadHop |-> cx.inhop,
          lastFrame |->
              [ readSpace |-> readSpace,
                writeSpace |-> outRingBufferSize - s.outRead[1],
                writeCount |-> writeCount,
                advanceCount |-> advanceCount,
                resampling |-> resampling,
                final |-> resampling /\ flush,
                draining |-> draining,
                unityCount |-> [c \in Chans |->
                                  GuideUnityCount(c, s.unityCount, unity)],
                prevInhop |-> AdvanceHops(s, cx).inhop,
                prevOuthop |-> AdvanceHops(s, cx).outhop,
                hadReadahead |-> s.haveReadahead,
                reused |-> [c \in Chans |->
                              haveValidReadahead(s.haveReadahead[c],
                                                 cx.inhop,
                                                 AdvanceHops(s, cx).inhop)] ] ]

\* The condition of while (cd0->outbuf->getWriteSpace() >= outhop) and the
\* breaks at the top of its body: TRUE when another frame is processed
Continue(s, cx) ==
    /\ outRingBufferSize - s.outRead[1] >= cx.outhop
    /\ FrameReady(s.inRead[1], cx.mode, s.accumulatorFill[1])

\* Up to 2^k passes of the loop, stopping at the first pass that does not
\* process a frame. (The passes are evaluated in halves so that the depth
\* of the evaluation stays logarithmic in the number of frames.)
RECURSIVE Frames(_, _, _)
Frames(s, cx, k) ==
    IF ~Continue(s, cx) THEN s
    ELSE IF k = 0 THEN Frame(s, cx)
    ELSE CHOOSE r \in { Frames(t, cx, k - 1) :
                          t \in { Frames(s, cx, k - 1) } } : TRUE

\* while (cd0->outbuf->getWriteSpace() >= outhop) { ... }
RECURSIVE FrameLoop(_, _)
FrameLoop(s, cx) ==
    IF Continue(s, cx)
    THEN CHOOSE r \in { FrameLoop(t, cx) : t \in { Frames(s, cx, 8) } } : TRUE
    ELSE s

\* The output hop consume() works with: the calculator's, raised to 1
ConsumeOuthop(tr, ps, hop, up) ==
    LET o == calculateSingle(tr, ps, hop, up)
    IN  IF o < 1 THEN 1 ELSE o

\* consume(): the members as the call leaves them
consume(s, cx) == FrameLoop(s, cx)

(***************************************************************************)
(* process, available, retrieve, setMaxProcessSize, reset.                 *)
(***************************************************************************)
\* totalTargetDuration as process() sets it before the first block
TargetDuration(m, studied, supplied, tr, target) ==
    IF m = "Studying" THEN RoundMul(studied, tr)
    ELSE IF m = "JustCreated" /\ supplied # 0 THEN RoundMul(supplied, tr)
    ELSE target

\* A process() that never enlarges the input rings
GrownSizeNever(size, rs, samples) == size

\* The capacity of the input rings after process() has made room for the
\* block: grown when the block exceeds the write space
GrownSize(size, rs, samples) ==
    IF samples > size - rs THEN size - (size - rs) + samples ELSE size

\* RingBuffer::resized: the read space of the copy
Resized(rs, newSize) == Min(rs, newSize)

\* The FFT sizes of the guide configuration's bands, in the order of the
\* scales map
FftSizes == << longestFftSize \div 4, longestFftSize \div 2, longestFftSize >>

\* The calls analyseChannel(c) makes that other steps of the frame depend
\* on: the analysis itself, then the formant steps when formants are
\* preserved
ChannelAnalysis(c, formant) ==
    IF formant
    THEN << <<"analyseChannel", c>>, <<"analyseFormant", c>>,
            <<"adjustFormant", c>> >>
    ELSE << <<"analyseChannel", c>> >>

\* step(c) for c = from .. channels, in order
RECURSIVE ForChannels(_, _, _)
ForChannels(step, formant, from) ==
    IF from > channels THEN << >>
    ELSE (IF step = "analyseChannel" THEN ChannelAnalysis(from, formant)
          ELSE << <<step, from>> >>)
         \o ForChannels(step, formant, from + 1)

\* A frame whose transient deferral precedes the phase advance
FrameStepsKickFirst(formant, resampling) ==
    ForChannels("analyseChannel", formant, 1)
    \o ForChannels("adjustPreKick", formant, 1)
    \o [i \in 1..Len(FftSizes) |-> <<"advance", FftSizes[i]>>]
    \o ForChannels("synthesiseChannel", formant, 1)
    \o (IF resampling THEN << <<"resample", 0>> >> ELSE << >>)
    \o ForChannels("write", formant, 1)

\* The steps of one pass of the loop of consume(), in the order the loop
\* body makes them
FrameSteps(formant, resampling) ==
    ForChannels("analyseChannel", formant, 1)
    \o [i \in 1..Len(FftSizes) |-> <<"advance", FftSizes[i]>>]
    \o ForChannels("adjustPreKick", formant, 1)
    \o ForChannels("synthesiseChannel", formant, 1)
    \o (IF resampling THEN << <<"resample", 0>> >> ELSE << >>)
    \o ForChannels("write", formant, 1)

\* A process() that accepts input after the final block
ProcessRejectedNever == FALSE

\* The misuse check of process
ProcessRejected == mode = "Finished"

\* A first-block test that holds for every block
FirstBlockAlways(m) == TRUE

\* The test for the first block of a session in process()
FirstBlock(m) == m = "JustCreated" \/ m = "Studying"

\* process(): the whole call when whole is set; otherwise the call up to the
\* loop of consume(), which LoopFrame and LoopExit then follow pass by pass
processCall(samples, final, calcUp, resampleUp, whole) ==
    /\ IF ProcessRejected
       THEN /\ ~calcUp /\ ~resampleUp
            /\ Called("process", TRUE)
            /\ UNCHANGED << params, kicks, control, loop, ratios, hops,
                            counters, rings, mode, keyFrameMap, haveResampler,
                            clientTimeRatio >>
       ELSE
       LET offline == ~isRealTime
           first == FirstBlock(mode)
           target == IF offline
                     THEN TargetDuration(mode, studyInputDuration,
                                         suppliedInputDuration, timeRatio,
                                         totalTargetDuration)
                     ELSE totalTargetDuration
           upd == IF offline
                  THEN updateRatioFromMap(keyFrameMap, timeRatio, pitchScale,
                                          inhop, consumedInputDuration,
                                          lastKeyFrameSurpassed,
                                          studyInputDuration, target)
                  ELSE [timeRatio |-> timeRatio, inhop |-> inhop,
                        lastKeyFrameSurpassed |-> lastKeyFrameSurpassed,
                        recalculated |-> FALSE]
           resampler == haveResampler
                        \/ (offline /\ first /\ pitchScale # <<1, 1>>)
           pad == longestFftSize \div 2
           padded == [c \in Chans |->
                        IF offline /\ first
                        THEN RingWrite(inSize[c], inRead[c], pad)
                        ELSE inRead[c]]
           skip == IF offline /\ first THEN RoundDiv(pad, pitchScale)
                   ELSE startSkip
           newMode == IF final THEN "Finished" ELSE "Processing"
           grow == samples > inSize[1] - padded[1]
           newSize == GrownSize(inSize[1], padded[1], samples)
           size == [c \in Chans |-> IF grow THEN newSize ELSE inSize[c]]
           written == [c \in Chans |->
                         RingWrite(size[c],
                                   IF grow THEN Resized(padded[c], newSize)
                                   ELSE padded[c],
                                   samples)]
           hops0 == IF upd.recalculated
                    THEN StoredHops(upd.timeRatio, pitchScale)
                    ELSE { upd.inhop }
       IN  \E hop \in hops0 :
           \E outhop \in { ConsumeOuthop(upd.timeRatio, pitchScale, hop,
                                          calcUp) } :
           /\ calcUp => outhop # ConsumeOuthop(upd.timeRatio, pitchScale,
                                               hop, FALSE)
           /\ resampleUp =>
                 /\ Resampling(resampler, pitchScale, highConsistency)
                 /\ resample(outhop, pitchScale, TRUE)
                      # resample(outhop, pitchScale, FALSE)
           /\ \E cx \in { [ inhop |-> hop, outhop |-> outhop,
                            ratio |-> getEffectiveRatio(upd.timeRatio,
                                                        pitchScale),
                            pitchScale |-> pitchScale,
                            resampler |-> resampler, hc |-> highConsistency,
                            up |-> resampleUp, rt |-> isRealTime,
                            target |-> target, mode |-> newMode ] } :
              \E s0 \in { [ inRead |-> written, outRead |-> outRead,
                            accumulatorFill |-> accumulatorFill,
                            unityCount |-> unityCount,
                            consumedInputDuration |-> consumedInputDuration,
                            totalOutputDuration |-> totalOutputDuration,
                            startSkip |-> skip,
                            prevInhop |-> prevInhop,
                            prevOuthop |-> prevOuthop,
                            haveReadahead |-> haveReadahead,
                            readaheadHop |-> readaheadHop,
                            lastFrame |-> lastFrame ] } :
              \* frames with an input hop below 0 (an outcome of the
              \* undefined conversion) are not followed; frames with an
              \* input hop of 0 are followed pass by pass only, since the
              \* loop need not end
              /\ hop < (IF whole THEN 1 ELSE 0) => ~Continue(s0, cx)
              /\ \E s \in { IF whole THEN consume(s0, cx) ELSE s0 } :
                 /\ totalTargetDuration' = target
                 /\ timeRatio' = upd.timeRatio
                 /\ inhop' = cx.inhop
                 /\ lastKeyFrameSurpassed' = upd.lastKeyFrameSurpassed
                 /\ haveResampler' = resampler
                 /\ mode' = newMode
                 /\ inSize' = size
                 /\ inRead' = s.inRead
                 /\ outRead' = s.outRead
                 /\ accumulatorFill' = s.accumulatorFill
                 /\ unityCount' = s.unityCount
                 /\ consumedInputDuration' = s.consumedInputDuration
                 /\ totalOutputDuration' = s.totalOutputDuration
                 /\ startSkip' = s.startSkip
                 /\ prevInhop' = s.prevInhop
                 /\ prevOuthop' = s.prevOuthop
                 /\ haveReadahead' = s.haveReadahead
                 /\ readaheadHop' = s.readaheadHop
                 /\ lastOuthop' = cx.outhop
                 /\ lastFrame' = s.lastFrame
                 /\ frameLog' =
                      IF whole /\ Continue(s0, cx)
                      THEN FrameSteps(formantPreserved,
                                      Resampling(resampler, pitchScale,
                                                 highConsistency))
                      ELSE frameLog
                 /\ pc' = IF whole THEN pc ELSE "consume"
                 /\ ctx' = IF whole THEN ctx ELSE cx
                 /\ Called("process", FALSE)
                 /\ UNCHANGED << params, kicks, control, pitchScale,
                                 formantScale, studyInputDuration,
                                 suppliedInputDuration, keyFrameMap,
                                 imbalanceLogged, clientTimeRatio >>

process(samples, final, calcUp, resampleUp) ==
    processCall(samples, final, calcUp, resampleUp, TRUE)

\* process() up to the loop of consume()
LoopEnter(samples, final, calcUp, resampleUp) ==
    /\ pc = "idle"
    /\ processCall(samples, final, calcUp, resampleUp, FALSE)

\* The members the loop of consume() changes, as they are
LoopState ==
    [ inRead |-> inRead, outRead |-> outRead,
      accumulatorFill |-> accumulatorFill, unityCount |-> unityCount,
      consumedInputDuration |-> consumedInputDuration,
      totalOutputDuration |-> totalOutputDuration, startSkip |-> startSkip,
      prevInhop |-> prevInhop, prevOuthop |-> prevOuthop,
      haveReadahead |-> haveReadahead, readaheadHop |-> readaheadHop,
      lastFrame |-> lastFrame ]

\* What a frame works with: the locals consume() set before its loop, and
\* m_timeRatio and m_pitchScale as the frame loads them
FrameContext ==
    [ctx EXCEPT !.ratio = getEffectiveRatio(timeRatio, pitchScale),
                !.pitchScale = pitchScale]

\* One pass of the loop of consume() that processes a frame
LoopFrame ==
    /\ pc = "consume"
    /\ Continue(LoopState, ctx)
    /\ \E s \in { Frame(LoopState, FrameContext) } :
          /\ inRead' = s.inRead
          /\ outRead' = s.outRead
          /\ accumulatorFill' = s.accumulatorFill
          /\ unityCount' = s.unityCount
          /\ consumedInputDuration' = s.consumedInputDuration
          /\ totalOutputDuration' = s.totalOutputDuration
          /\ startSkip' = s.startSkip
          /\ prevInhop' = s.prevInhop
          /\ prevOuthop' = s.prevOuthop
          /\ haveReadahead' = s.haveReadahead
          /\ readaheadHop' = s.readaheadHop
          /\ lastFrame' = s.lastFrame
    /\ frameLog' = FrameSteps(formantPreserved,
                              Resampling(ctx.resampler, pitchScale, ctx.hc))
    /\ UNCHANGED << params, kicks, control, loop, ratios, studyInputDuration,
                    suppliedInputDuration, totalTargetDuration,
                    lastKeyFrameSurpassed, mode, keyFrameMap, haveResampler,
                    inSize, imbalanceLogged, lastOp, rejected, lastOuthop,
                    clientTimeRatio, calls >>

\* The pass of the loop that leaves it: the output ring has no room for
\* another hop, or a break at the top of the body
LoopExit ==
    /\ pc = "consume"
    /\ ~Continue(LoopState, ctx)
    /\ pc' = "idle"
    /\ ctx' = NoContext
    /\ UNCHANGED << params, kicks, control, ratios, hops, counters, rings,
                    mode, keyFrameMap, haveResampler, lastOp, rejected,
                    clientTimeRatio, calls >>

\* adjustPreKick(c), for the guidance g that analyseChannel(c) has left in
\* cd->guidance and a rise of mag over prevMag in the bins of the range
adjustPreKick(c, g, rise) ==
    LET from == binForFrequency(g.preKick.f0, g.fftSize)
        to == binForFrequency(g.preKick.f1, g.fftSize)
        within(i) == from <= i /\ i <= to
    IN  /\ guidance' = [guidance EXCEPT ![c] = g]
        /\ IF g.preKick.present
           THEN /\ pendingKick' =
                     [pendingKick EXCEPT ![c][g.fftSize] =
                        [i \in KickBins |->
                           IF within(i) /\ rise > 0 THEN rise ELSE @[i]]]
                /\ kickBalance' =
                     [kickBalance EXCEPT ![c][g.fftSize] =
                        [i \in KickBins |->
                           IF within(i) /\ rise > 0 THEN @[i] + rise
                           ELSE @[i]]]
           ELSE IF g.kick.present
           THEN /\ pendingKick' =
                     [pendingKick EXCEPT ![c][g.fftSize] =
                        [i \in KickBins |-> IF within(i) THEN 0 ELSE @[i]]]
                /\ kickBalance' =
                     [kickBalance EXCEPT ![c][g.fftSize] =
                        [i \in KickBins |->
                           IF within(i)
                           THEN @[i] - pendingKick[c][g.fftSize][i]
                           ELSE @[i]]]
           ELSE UNCHANGED << pendingKick, kickBalance >>
        /\ Called("adjustPreKick", FALSE)
        /\ UNCHANGED << params, loop, control, ratios, hops, counters, rings,
                        mode, keyFrameMap, haveResampler, clientTimeRatio >>

\* setTimeRatio() on the control thread of a realtime instance, up to and
\* including the store to m_timeRatio
setTimeRatioStore(ratio) ==
    /\ isRealTime
    /\ setter = "idle"
    /\ ratio # timeRatio
    /\ timeRatio' = ratio
    /\ clientTimeRatio' = ratio
    /\ setter' = "stored"
    /\ Called("setTimeRatio", FALSE)
    /\ UNCHANGED << params, kicks, loop, pitchScale, formantScale, inhop,
                    hops, counters, rings, mode, keyFrameMap, haveResampler >>

\* setPitchScale() on the control thread of a realtime instance, up to and
\* including the store to m_pitchScale
setPitchScaleStore(scale) ==
    /\ isRealTime
    /\ setter = "idle"
    /\ scale # pitchScale
    /\ pitchScale' = scale
    /\ setter' = "stored"
    /\ Called("setPitchScale", FALSE)
    /\ UNCHANGED << params, kicks, loop, timeRatio, formantScale, inhop,
                    hops, counters, rings, mode, keyFrameMap, haveResampler,
                    clientTimeRatio >>

\* The calculateHop() that ends the setter: it loads both ratios and stores
\* m_inhop
setterCalculateHop ==
    /\ setter = "stored"
    /\ inhop' \in StoredHops(timeRatio, pitchScale)
    /\ setter' = "idle"
    /\ UNCHANGED << params, kicks, loop, timeRatio, pitchScale, formantScale,
                    hops, counters, rings, mode, keyFrameMap, haveResampler,
                    lastOp, rejected, clientTimeRatio, calls >>

\* An available() that reports the end of the stream as soon as the mode is
\* Finished
availableFinishedOnly ==
    LET av == outRead[1]
    IN  IF mode = "Finished" THEN -1 ELSE av

\* available(): the value returned
available ==
    LET av == outRead[1]
    IN  IF av = 0 /\ mode = "Finished" THEN -1 ELSE av

Available ==
    /\ Called("available", FALSE)
    /\ UNCHANGED << params, kicks, control, loop, ratios, hops, counters,
                    rings, mode, keyFrameMap, haveResampler, clientTimeRatio >>

\* The loop of retrieve() from channel c on: got, the read spaces and
\* whether the imbalance warning is logged
RECURSIVE retrieveFrom(_, _, _, _)
retrieveFrom(c, got, out, logged) ==
    IF c > channels THEN [got |-> got, outRead |-> out, logged |-> logged]
    ELSE LET gotHere == RingTake(out[c], got)
         IN  retrieveFrom(c + 1,
                          IF gotHere < got THEN Min(got, Max(gotHere, 0))
                          ELSE got,
                          [out EXCEPT ![c] = @ - gotHere],
                          logged \/ (gotHere < got /\ c > 1))

retrieve(samples) ==
    LET r == retrieveFrom(1, samples, outRead, imbalanceLogged)
    IN  /\ outRead' = r.outRead
        /\ imbalanceLogged' = r.logged
        /\ Called("retrieve", FALSE)
        /\ UNCHANGED << params, kicks, control, loop, ratios, hops, counters,
                        inSize, inRead, accumulatorFill, mode, keyFrameMap,
                        haveResampler, clientTimeRatio >>

setMaxProcessSize(n) ==
    LET oldSize == inSize[1]
        newSize == longestFftSize + n
    IN  /\ IF newSize > oldSize
           THEN /\ inSize' = [c \in Chans |-> newSize]
                /\ inRead' = [c \in Chans |-> Resized(inRead[c], newSize)]
           ELSE UNCHANGED << inSize, inRead >>
        /\ Called("setMaxProcessSize", FALSE)
        /\ UNCHANGED << params, kicks, control, loop, ratios, hops, counters,
                        outRead, accumulatorFill, imbalanceLogged, mode,
                        keyFrameMap, haveResampler, clientTimeRatio >>

\* ChannelData::reset() and ChannelScaleData::reset(): the rings are emptied,
\* the accumulators zeroed and the readahead dropped, as in a fresh channel
ChannelDataReset ==
    /\ inRead' = [c \in Chans |-> 0]
    /\ outRead' = [c \in Chans |-> 0]
    /\ accumulatorFill' = [c \in Chans |-> 0]
    /\ haveReadahead' = [c \in Chans |-> FALSE]

\* A reset that forgets to clear the supplied input duration
ResetDurationsKeepSupplied ==
    /\ studyInputDuration' = 0
    /\ UNCHANGED suppliedInputDuration
    /\ totalTargetDuration' = 0
    /\ consumedInputDuration' = 0
    /\ lastKeyFrameSurpassed' = 0
    /\ totalOutputDuration' = 0
    /\ keyFrameMap' = EmptyMap

\* The durations and the key-frame map as reset() leaves them
ResetDurations ==
    /\ studyInputDuration' = 0
    /\ suppliedInputDuration' = 0
    /\ totalTargetDuration' = 0
    /\ consumedInputDuration' = 0
    /\ lastKeyFrameSurpassed' = 0
    /\ totalOutputDuration' = 0
    /\ keyFrameMap' = EmptyMap

reset ==
    /\ ChannelDataReset
    /\ prevInhop' = inhop
    /\ prevOuthop' = InitialPrevOuthop(inhop, timeRatio, pitchScale)
    /\ ResetDurations
    /\ mode' = "JustCreated"
    /\ Called("reset", FALSE)
    /\ UNCHANGED << params, kicks, control, loop, ratios, unityCount,
                    startSkip, lastOuthop, frameLog, lastFrame, readaheadHop,
                    inSize, imbalanceLogged, haveResampler,
                    clientTimeRatio >>

Next ==
    \/ \E r \in TimeRatios : setTimeRatio(r)
    \/ \E p \in PitchScales : setPitchScale(p)
    \/ \E f \in FormantScales : setFormantScale(f)
    \/ \E b \in BOOLEAN : setFormantOption(b)
    \/ \E m \in KeyFrameMaps : setKeyFrameMap(m)
    \/ \E n \in StudySizes : study(n)
    \/ \E n \in ExpectedDurations : setExpectedInputDuration(n)
    \/ \E n \in MaxProcessSizes : setMaxProcessSize(n)
    \/ \E n \in BlockSizes, final \in BOOLEAN, cu \in BOOLEAN,
          ru \in BOOLEAN : process(n, final, cu, ru)
    \/ Available
    \/ \E n \in RequestSizes : retrieve(n)
    \/ reset

Spec == Init /\ [][Next]_vars

NextStream ==
    \/ \E n \in MaxProcessSizes : setMaxProcessSize(n)
    \/ \E n \in ProcessSizes, final \in BOOLEAN, cu \in BOOLEAN,
          ru \in BOOLEAN : process(n, final, cu, ru)
    \/ Available
    \/ \E n \in RetrieveSizes : retrieve(n)
    \/ reset

SpecStream == Init /\ [][NextStream]_vars

\* Sessions driven by a key-frame map
NextMap ==
    \/ \E m \in MapInputs : setKeyFrameMap(m)
    \/ \E n \in StudySizes : study(n)
    \/ \E n \in MapBlockSizes, cu \in BOOLEAN, ru \in BOOLEAN :
          process(n, FALSE, cu, ru)

SpecMap == Init /\ [][NextMap]_vars

\* The calls that decide what a frame does
NextFrame ==
    \/ \E b \in BOOLEAN : setFormantOption(b)
    \/ \E p \in FramePitchScales : setPitchScale(p)
    \/ \E n \in ProcessSizes, final \in BOOLEAN, cu \in BOOLEAN,
          ru \in BOOLEAN : process(n, final, cu, ru)
    \/ reset
SpecFrame == Init /\ [][NextFrame]_vars

\* Calls with the loop of consume() followed pass by pass
NextLoop ==
    \/ \E n \in LoopSizes, final \in BOOLEAN, cu \in BOOLEAN,
          ru \in BOOLEAN : LoopEnter(n, final, cu, ru)
    \/ LoopFrame
    \/ LoopExit
    \/ pc = "idle" /\ \E n \in RetrieveSizes : retrieve(n)
    \/ pc = "idle" /\ reset
SpecLoop == Init /\ [][NextLoop]_vars

\* The loop of consume() followed pass by pass in sessions whose key-frame
\* map starts at the origin
NextHop ==
    \/ pc = "idle" /\ \E m \in { OriginMap } : setKeyFrameMap(m)
    \/ pc = "idle" /\ \E n \in StudySizes : study(n)
    \/ /\ keyFrameMap = OriginMap
       /\ \E n \in HopBlockSizes, final \in BOOLEAN, cu \in BOOLEAN,
             ru \in BOOLEAN : LoopEnter(n, final, cu, ru)
    \/ LoopFrame
    \/ LoopExit
SpecHop == Init /\ [][NextHop]_vars

\* A realtime session whose control thread sets the ratios while the
\* processing thread is in process()
NextRace ==
    \/ \E r \in TimeRatios \cup { <<1, 1>> } : setTimeRatioStore(r)
    \/ \E p \in FramePitchScales : setPitchScaleStore(p)
    \/ setterCalculateHop
    \/ /\ isRealTime
       /\ \E n \in RaceSizes, final \in BOOLEAN, cu \in BOOLEAN,
             ru \in BOOLEAN : LoopEnter(n, final, cu, ru)
    \/ LoopFrame
    \/ LoopExit
SpecRace == Init /\ [][NextRace]_vars

\* The transient deferral of the frames, for any guidance
NextKick ==
    \E c \in Chans, g \in Guidances, rise \in Rises : adjustPreKick(c, g, rise)
SpecKick == Init /\ [][NextKick]_vars

(***************************************************************************)
(* Properties.                                                             *)
(***************************************************************************)
ModeRank(m) ==
    CASE m = "JustCreated" -> 0
      [] m = "Studying" -> 1
      [] m = "Processing" -> 2
      [] m = "Finished" -> 3

RatioSetters == { "setTimeRatio", "setPitchScale", "setFormantScale" }

\* C1: in a step that is not a reset the mode never moves back along
\* JustCreated -> Studying -> Processing -> Finished, and a Finished mode
\* stays Finished.
C1_ModeForward ==
    [][ lastOp' # "reset" =>
          /\ ModeRank(mode') >= ModeRank(mode)
          /\ (mode = "Finished" => mode' = "Finished") ]_vars

\* study() called on a finished stream, which stays finished
C1_Witness ==
    mode = "Finished" /\ lastOp = "study" /\ rejected

\* C2 as stated: in every offline state the output duration is at most the
\* target duration, sessions without a study or an expected duration
\* included.
C2_OutputWithinTarget ==
    ~realtime => totalOutputDuration <= totalTargetDuration

\* C2, amended: in every offline state whose target duration is known
\* (positive), the output duration is at most the target duration.
C2_OutputWithinKnownTarget ==
    (~realtime /\ totalTargetDuration > 0)
        => totalOutputDuration <= totalTargetDuration

\* A finished offline stream whose output was cut at its target
C2_Witness ==
    /\ ~realtime
    /\ mode = "Finished"
    /\ totalTargetDuration > 0
    /\ totalOutputDuration = totalTargetDuration
    /\ inRead[1] = 0

\* The duration the target is computed from: the studied duration, or the
\* expected one when nothing was studied
DeclaredDuration ==
    IF studyInputDuration > 0 THEN studyInputDuration
    ELSE suppliedInputDuration

\* The final block is in and consume() has nothing left to do
Drained ==
    mode = "Finished" /\ inRead[1] = 0 /\ accumulatorFill[1] = 0

\* C3: offline, without a key-frame map, once a stream of the declared
\* duration D > 0 has been processed to its end and drained, the output
\* duration is within 1 of round(D * timeRatio).
C3_DurationLaw ==
    ( /\ ~realtime
      /\ Drained
      /\ keyFrameMap = EmptyMap
      /\ DeclaredDuration > 0
      /\ consumedInputDuration = DeclaredDuration + longestFftSize \div 2
      /\ totalTargetDuration = RoundMul(DeclaredDuration, timeRatio) )
    => /\ totalOutputDuration - RoundMul(DeclaredDuration, timeRatio) <= 1
       /\ RoundMul(DeclaredDuration, timeRatio) - totalOutputDuration <= 1

\* consume() stopped for want of output space with a frame's input waiting
Stalled ==
    /\ lastOuthop > 0
    /\ outRingBufferSize - outRead[1] < lastOuthop
    /\ FrameReady(inRead[1], mode, accumulatorFill[1])

\* C4: a retrieve that frees at least one output hop of space after
\* consume() stalled on a full output ring makes the engine process further
\* frames.
C4_RetrieveResumesFrames ==
    [][ ( /\ lastOp' = "retrieve"
          /\ Stalled
          /\ outRingBufferSize - outRead'[1] >= lastOuthop )
        => \/ inRead' # inRead
           \/ accumulatorFill' # accumulatorFill
           \/ consumedInputDuration' # consumedInputDuration ]_vars

\* C5: available() is -1 exactly when the mode is Finished and channel 0's
\* output ring is empty, and otherwise the read space of that ring.
C5_AvailableValue ==
    /\ (available = -1) <=> (mode = "Finished" /\ outRead[1] = 0)
    /\ available # -1 => (available = outRead[1] /\ available >= 0)

\* available() called on a finished, drained stream
C5_Witness ==
    /\ lastOp = "available"
    /\ mode = "Finished"
    /\ outRead[1] = 0
    /\ available = -1

\* C6: every channel's input ring and output ring holds as much as channel
\* 0's, and retrieve() has never met a channel imbalance.
C6_ChannelBalance ==
    /\ \A c \in Chans : inRead[c] = inRead[1] /\ outRead[c] = outRead[1]
    /\ \A c \in Chans : inSize[c] = inSize[1]
    /\ ~imbalanceLogged

\* A retrieve() that left output and unprocessed input behind in a stream
\* whose start skip has been used up
C6_Witness ==
    /\ lastOp = "retrieve"
    /\ outRead[channels] > 0
    /\ inRead[channels] > 0
    /\ startSkip = 0
    /\ totalOutputDuration > 0

\* C7: after reset the members that determine later output are those of a
\* fresh instance constructed with the ratios the client last set.
C7_ResetAsFresh ==
    lastOp = "reset" =>
        /\ timeRatio = clientTimeRatio
        /\ inhop = calculateHop(clientTimeRatio, pitchScale)
        /\ prevInhop = inhop
        /\ prevOuthop = InitialPrevOuthop(inhop, clientTimeRatio, pitchScale)
        /\ startSkip = 0
        /\ unityCount = 0
        /\ haveResampler = realtime
        /\ mode = "JustCreated"
        /\ studyInputDuration = 0
        /\ suppliedInputDuration = 0
        /\ totalTargetDuration = 0
        /\ consumedInputDuration = 0
        /\ lastKeyFrameSurpassed = 0
        /\ totalOutputDuration = 0
        /\ keyFrameMap = EmptyMap

\* C8: reset leaves the mode JustCreated, the six durations 0 and the
\* key-frame map empty, and a study, setKeyFrameMap or ratio setter call
\* that follows it offline is accepted.
C8_ResetState ==
    [][ /\ lastOp' = "reset" =>
              /\ mode' = "JustCreated"
              /\ studyInputDuration' = 0
              /\ suppliedInputDuration' = 0
              /\ totalTargetDuration' = 0
              /\ consumedInputDuration' = 0
              /\ lastKeyFrameSurpassed' = 0
              /\ totalOutputDuration' = 0
              /\ keyFrameMap' = EmptyMap
        /\ ( /\ lastOp = "reset"
             /\ ~realtime
             /\ lastOp' \in RatioSetters \cup { "study", "setKeyFrameMap" } )
           => ~rejected' ]_vars

\* A reset of an instance that has processed input, as the third call or
\* later
C8_Witness ==
    /\ lastOp = "reset"
    /\ lastOuthop > 0
    /\ mode = "JustCreated"
    /\ suppliedInputDuration = 0
    /\ calls >= 3

\* C9: offline, a ratio setter called in mode Studying or Processing is
\* rejected and leaves timeRatio, pitchScale, formantScale and the input hop
\* as they were.
C9_SetterRejected ==
    [][ ( /\ lastOp' \in RatioSetters
          /\ ~realtime
          /\ mode \in { "Studying", "Processing" } )
        => /\ rejected'
           /\ UNCHANGED << timeRatio, pitchScale, formantScale, inhop >> ]_vars

\* A ratio setter rejected while processing offline
C9_Witness ==
    /\ lastOp \in RatioSetters
    /\ rejected
    /\ ~realtime
    /\ mode = "Processing"

\* C10: setKeyFrameMap is rejected and leaves the map as it was in realtime
\* mode and in the modes Processing and Finished; otherwise it is accepted
\* and stores a map.
C10_KeyFrameMapGuard ==
    [][ lastOp' = "setKeyFrameMap" =>
          IF realtime \/ mode \in { "Processing", "Finished" }
          THEN rejected' /\ keyFrameMap' = keyFrameMap
          ELSE ~rejected' /\ keyFrameMap' \in KeyFrameMaps
               /\ \E m \in KeyFrameMaps : setKeyFrameMap(m) ]_vars

\* setKeyFrameMap rejected after processing began, the earlier map kept
C10_Witness ==
    /\ lastOp = "setKeyFrameMap"
    /\ rejected
    /\ ~realtime
    /\ mode = "Processing"
    /\ keyFrameMap # EmptyMap

\* C11: a process call made in mode Finished is rejected and leaves the
\* input rings, the output rings, the accumulators, the mode, every
\* counter, the start skip and the hops as they were.
C11_ProcessAfterFinal ==
    [][ (lastOp' = "process" /\ mode = "Finished")
        => /\ rejected'
           /\ UNCHANGED << inSize, inRead, outRead, accumulatorFill, mode,
                           counters, startSkip, unityCount, prevInhop,
                           prevOuthop, timeRatio, inhop, haveResampler >> ]_vars

\* process() called on a finished stream that still holds output
C11_Witness ==
    /\ lastOp = "process"
    /\ rejected
    /\ mode = "Finished"
    /\ outRead[1] > 0

\* C12: offline, an accepted study call leaves the mode Studying and adds
\* its sample count to studyInputDuration, which is 0 in mode JustCreated;
\* a study call in realtime mode or in mode Processing or Finished changes
\* neither.
C12_StudyAccumulates ==
    [][ /\ (mode' = "JustCreated" => studyInputDuration' = 0)
        /\ lastOp' = "study" =>
             IF realtime \/ mode \in { "Processing", "Finished" }
             THEN rejected' /\ UNCHANGED << mode, studyInputDuration >>
             ELSE /\ ~rejected'
                  /\ mode' = "Studying"
                  /\ \E n \in StudySizes :
                        studyInputDuration' = studyInputDuration + n ]_vars

\* Two study calls in a row, the second adding to the first
C12_Witness ==
    /\ lastOp = "study"
    /\ ~rejected
    /\ mode = "Studying"
    /\ \E n \in StudySizes : studyInputDuration = n + n

(***************************************************************************)
(* C13: timeRatio is a well-defined value greater than 0 in every          *)
(* reachable state, for every key-frame map the client may supply,         *)
(* including maps whose first entry has input index 0 or output index 0:   *)
(* both terms of the ratio are positive (a zero numerator is the ratio 0,  *)
(* a zero denominator an infinite or undefined quotient).                  *)
(***************************************************************************)
C13_TimeRatioPositive == timeRatio[1] > 0 /\ timeRatio[2] > 0

\* The pending key frame: the first key above lastKeyFrameSurpassed
PendingKey(k) ==
    /\ k \in DOMAIN keyFrameMap
    /\ k > lastKeyFrameSurpassed
    /\ \A j \in DOMAIN keyFrameMap : j > lastKeyFrameSurpassed => k <= j

\* n is the first key above x
FirstKeyAbove(n, x) ==
    /\ n \in DOMAIN keyFrameMap
    /\ n > x
    /\ \A j \in DOMAIN keyFrameMap : j > x => n <= j

\* An accepted offline process call made after some input was consumed
ProcessRound ==
    /\ lastOp' = "process"
    /\ ~rejected'
    /\ ~realtime
    /\ consumedInputDuration > 0

\* The ratio, hop and key left by a round that surpasses key k towards the
\* point (nin, nout), taking the quotient of the differences
SurpassTowards(k, nin, nout) ==
    LET dout == IF nout <= keyFrameMap[k] THEN 1 ELSE nout - keyFrameMap[k]
    IN  /\ timeRatio'[1] * (nin - k) = dout * timeRatio'[2]
        /\ inhop' = calculateHop(timeRatio', pitchScale)
        /\ lastKeyFrameSurpassed' = k

(***************************************************************************)
(* C14: key-frame surpass rule, with N the map entry that follows K.  In a *)
(* process round after some input was consumed, when the pending key K has *)
(* consumedInputDuration >= K.input the new timeRatio is                   *)
(* (N.output - K.output) / (N.input - K.input), N being the entry after K  *)
(* or the sentinel (studyInputDuration, totalTargetDuration), the output   *)
(* difference replaced by 1 when N.output <= K.output, the hop is          *)
(* recomputed and lastKeyFrameSurpassed is K.input; otherwise the three    *)
(* are unchanged.                                                          *)
(***************************************************************************)
C14_SurpassFollowingEntry ==
    [][ ProcessRound =>
          IF \E k \in DOMAIN keyFrameMap :
                PendingKey(k) /\ consumedInputDuration >= k
          THEN \A k \in DOMAIN keyFrameMap : PendingKey(k) =>
                 IF \E n \in DOMAIN keyFrameMap : FirstKeyAbove(n, k)
                 THEN \A n \in DOMAIN keyFrameMap : FirstKeyAbove(n, k) =>
                        SurpassTowards(k, n, keyFrameMap[n])
                 ELSE SurpassTowards(k, studyInputDuration,
                                     totalTargetDuration')
          ELSE UNCHANGED << timeRatio, inhop, lastKeyFrameSurpassed >> ]_vars

(***************************************************************************)
(* C14 as the code has it: N is the first map entry whose input index is   *)
(* above consumedInputDuration (the sentinel when there is none), and the  *)
(* new ratio is 1 when N.input <= K.input.                                 *)
(***************************************************************************)
C14_SurpassNextAhead ==
    [][ ProcessRound =>
          IF \E k \in DOMAIN keyFrameMap :
                PendingKey(k) /\ consumedInputDuration >= k
          THEN \A k \in DOMAIN keyFrameMap : PendingKey(k) =>
                 IF \E n \in DOMAIN keyFrameMap :
                       FirstKeyAbove(n, consumedInputDuration)
                 THEN \A n \in DOMAIN keyFrameMap :
                        FirstKeyAbove(n, consumedInputDuration) =>
                          SurpassTowards(k, n, keyFrameMap[n])
                 ELSE IF studyInputDuration > k
                      THEN SurpassTowards(k, studyInputDuration,
                                          totalTargetDuration')
                      ELSE /\ timeRatio' = <<1, 1>>
                           /\ inhop' = calculateHop(<<1, 1>>, pitchScale)
                           /\ lastKeyFrameSurpassed' = k
          ELSE UNCHANGED << timeRatio, inhop, lastKeyFrameSurpassed >> ]_vars

\* A round has surpassed key K towards a key N ahead of the consumed input,
\* with another key between K and N already behind the consumed input
C14_Witness ==
    /\ lastOp = "process"
    /\ ~rejected
    /\ lastKeyFrameSurpassed > 0
    /\ \E n, j \in DOMAIN keyFrameMap :
          /\ lastKeyFrameSurpassed \in DOMAIN keyFrameMap
          /\ lastKeyFrameSurpassed < j
          /\ j < n
          /\ n > consumedInputDuration
          /\ timeRatio[1] * (n - lastKeyFrameSurpassed)
               = (keyFrameMap[n] - keyFrameMap[lastKeyFrameSurpassed])
                 * timeRatio[2]

\* An accepted offline process call
OfflineRound ==
    /\ lastOp' = "process"
    /\ ~rejected'
    /\ ~realtime

(***************************************************************************)
(* C15: in offline mode with a non-empty key-frame map the ratio update is *)
(* evaluated before each processed frame.  A key frame that is pending and *)
(* not yet reached when a process call starts, and that the call has       *)
(* passed before its last frame begins, has taken effect when the call     *)
(* returns.                                                                *)
(***************************************************************************)
C15_UpdateBeforeEachFrame ==
    [][ OfflineRound =>
          \A k \in DOMAIN keyFrameMap :
             ( /\ k > 0
               /\ consumedInputDuration = 0 \/ PendingKey(k)
               /\ consumedInputDuration < k
               /\ consumedInputDuration' > consumedInputDuration
               /\ consumedInputDuration' - inhop' >= k )
             => lastKeyFrameSurpassed' >= k ]_vars

(***************************************************************************)
(* C15 as the code has it: the update is evaluated once per accepted       *)
(* process call, before the call's first frame.  The pending key frame     *)
(* takes effect in a call exactly when it was passed before the call       *)
(* started; a key frame passed in the middle of a call leaves the ratio    *)
(* and the hop of that call as they are and waits for the next call.       *)
(***************************************************************************)
C15_UpdateOncePerCall ==
    [][ OfflineRound =>
          /\ consumedInputDuration = 0 /\ DOMAIN keyFrameMap # {}
               => lastKeyFrameSurpassed' = 0
          /\ consumedInputDuration > 0 =>
               \A k \in DOMAIN keyFrameMap : PendingKey(k) =>
                  /\ lastKeyFrameSurpassed' = k <=> consumedInputDuration >= k
                  /\ consumedInputDuration < k =>
                       UNCHANGED << timeRatio, inhop, lastKeyFrameSurpassed >>
       ]_vars

\* A process call has returned with a key frame still pending that it passed
\* before its last frame, the ratio being the initial ratio of the map
C15_Witness ==
    /\ lastOp = "process"
    /\ ~rejected
    /\ lastKeyFrameSurpassed = 0
    /\ \E k \in DOMAIN keyFrameMap :
          /\ PendingKey(k)
          /\ consumedInputDuration - inhop >= k
          /\ timeRatio = Rat(keyFrameMap[k], k)

\* The latest frame went through the resampler
Resampled(log) == \E i \in 1..Len(log) : log[i][1] = "resample"

\* A process call that has processed at least one frame
FramesProcessed ==
    /\ lastOp' = "process"
    /\ ~rejected'
    /\ consumedInputDuration' # consumedInputDuration
         \/ totalOutputDuration' # totalOutputDuration
         \/ accumulatorFill' # accumulatorFill

(***************************************************************************)
(* C16: for every processed frame, offline and realtime alike, the         *)
(* mixdown passes through the resampler exactly when pitchScale is not 1   *)
(* or the high-consistency option is set.                                  *)
(***************************************************************************)
C16_ResamplerInCircuit ==
    [][ FramesProcessed =>
          (Resampled(frameLog')
             <=> (pitchScale # <<1, 1>> \/ highConsistency)) ]_vars

(***************************************************************************)
(* C16 as the code has it: in realtime mode the mixdown of every processed *)
(* frame passes through the resampler exactly when pitchScale is not 1 or  *)
(* high consistency is set; in offline mode exactly when pitchScale is not *)
(* 1, or high consistency is set and the instance already has a resampler  *)
(* from an earlier session.                                                *)
(***************************************************************************)
C16_ResamplerWhenPresent ==
    [][ FramesProcessed =>
          (Resampled(frameLog')
             <=> \/ pitchScale # <<1, 1>>
                 \/ highConsistency /\ (realtime \/ haveResampler)) ]_vars

\* An offline frame at pitch scale 1 went through the resampler that an
\* earlier session had created
C16_Witness ==
    /\ lastOp = "process"
    /\ ~rejected
    /\ ~realtime
    /\ highConsistency
    /\ pitchScale = <<1, 1>>
    /\ Resampled(frameLog)
    /\ consumedInputDuration > 0

\* The samples a process call has written to channel c's input ring: the
\* growth of the ring's content plus what the call's frames took from it
InputWritten(c) ==
    inRead'[c] - inRead[c] + consumedInputDuration' - consumedInputDuration

(***************************************************************************)
(* C17: offline startup padding happens exactly once per session.  The     *)
(* first accepted process call of a session (from JustCreated or Studying, *)
(* final or not) writes longestFftSize/2 zeros and then the supplied       *)
(* samples to each channel's input ring and sets startSkip to              *)
(* round((longestFftSize/2) / pitchScale), from which the frames of the    *)
(* same call can only take away; a later call writes the supplied samples  *)
(* only and does not raise startSkip; in realtime mode no call pads and    *)
(* startSkip stays 0.                                                      *)
(***************************************************************************)
C17_PaddingOnce ==
    [][ (lastOp' = "process" /\ ~rejected') =>
          \E n \in BlockSizes :
             IF ~realtime /\ mode \in { "JustCreated", "Studying" }
             THEN /\ \A c \in Chans :
                        InputWritten(c) = n + longestFftSize \div 2
                  /\ startSkip' <= RoundDiv(longestFftSize \div 2, pitchScale)
                  /\ \/ startSkip' = RoundDiv(longestFftSize \div 2,
                                              pitchScale)
                     \/ consumedInputDuration' # consumedInputDuration
             ELSE /\ \A c \in Chans : InputWritten(c) = n
                  /\ startSkip' <= startSkip
                  /\ realtime => startSkip' = 0 ]_vars

\* An offline instance at pitch scale 1/2 has taken the first block of a
\* session: the padding is in the ring and the start skip is set
C17_Witness ==
    /\ lastOp = "process"
    /\ ~rejected
    /\ ~realtime
    /\ mode = "Processing"
    /\ pitchScale = <<1, 2>>
    /\ startSkip = longestFftSize
    /\ \A c \in Chans : \E n \in BlockSizes :
          inRead[c] = n + longestFftSize \div 2

(***************************************************************************)
(* C18: after construction and after every change of ratio the stored      *)
(* input hop is an integer in [1, 1024], the floor of the proposed output  *)
(* hop (clamped to [128, 512]) over the effective ratio, clamped to        *)
(* [1, 1024]; for an effective ratio from 1 to 1.5 it is floor(256 / r).   *)
(***************************************************************************)
C18_StoredHop ==
    LET r == getEffectiveRatio(timeRatio, pitchScale)
    IN  /\ inhop \in 1..1024
        /\ ~IsNaN(r) => inhop = calculateHop(timeRatio, pitchScale)
        /\ (r[2] > 0 /\ r[2] <= r[1] /\ 2 * r[1] <= 3 * r[2])
             => inhop = (256 * r[2]) \div r[1]

\* Every step of the latest frame named in first precedes every step named
\* in second
Precede(first, second) ==
    \A i, j \in 1..Len(frameLog) :
       (frameLog[i][1] \in first /\ frameLog[j][1] \in second) => i < j

C20_EndOnlyWhenProcessed ==
    (mode = "Finished" /\ outRead[1] = 0)
       => (inRead[1] = 0 /\ accumulatorFill[1] = 0)


(***************************************************************************)
(* Properties of the frames of consume(), stated for SpecLoop.             *)
(***************************************************************************)
\* A step of the loop of consume() that processes a frame: the processing
\* thread stays in the loop, and the step is not one of the control thread
FrameStep == pc = "consume" /\ pc' = "consume" /\ setter' = setter

\* C21: every frame's write to the output ring fits: the writeCount of each
\* processed frame is at most the write space the output ring had when the
\* frame began, also when the resampler returns more than the output hop
C21_WriteFits == lastFrame.writeCount <= lastFrame.writeSpace


\* C22: while startSkip > 0 every output ring is empty between frames, and
\* each frame processed with startSkip > 0 drops min(startSkip, read space)
\* samples from every channel's output ring, lowers startSkip by that amount
\* and sets totalOutputDuration to the read space that remains; a frame
\* processed with startSkip = 0 adds its writeCount to totalOutputDuration
C22_StartSkipLaw ==
    /\ [](startSkip > 0 => \A c \in Chans : outRead[c] = 0)
    /\ [][FrameStep =>
            LET rs == outRead[1]
                      + Min(lastFrame'.writeCount, lastFrame'.writeSpace)
                toSkip == Min(startSkip, rs)
            IN  IF startSkip > 0
                THEN /\ \A c \in Chans : outRead'[c] = rs - toSkip
                     /\ startSkip' = startSkip - toSkip
                     /\ totalOutputDuration' = rs - toSkip
                ELSE /\ startSkip' = 0
                     /\ totalOutputDuration' =
                            totalOutputDuration + lastFrame'.writeCount]_vars

\* A frame has dropped a part of the start skip and a part is still to drop
C22_Witness ==
    /\ pc = "consume"
    /\ lastFrame.writeCount > 0
    /\ startSkip > 0
    /\ startSkip < longestFftSize \div 2
    /\ totalOutputDuration = 0


(***************************************************************************)
(* C23: every accepted process call stores all of its samples.  For any    *)
(* block size, also one larger than the write space of the input rings,    *)
(* each channel's input ring gains exactly the samples supplied (and the   *)
(* longestFftSize/2 zeros before the first offline block): what the ring   *)
(* holds after the call plus what the call's frames took from it exceeds   *)
(* what it held before by that number, so that the input unread before the *)
(* call is kept; the rings never shrink and hold what they are said to.    *)
(***************************************************************************)
C23_BlockStored ==
    [][ (lastOp' = "process" /\ ~rejected') =>
          \E n \in ProcessSizes :
             \A c \in Chans :
                /\ InputWritten(c) =
                      n + (IF ~realtime /\ FirstBlock(mode)
                           THEN longestFftSize \div 2 ELSE 0)
                /\ inSize'[c] >= inSize[c]
                /\ inRead'[c] <= inSize'[c] ]_vars

\* A block larger than the write space has arrived while earlier input was
\* unread: the rings have grown to the unread input plus the block
C23_Witness ==
    /\ lastOp = "process"
    /\ ~rejected
    /\ calls >= 2
    /\ \A c \in Chans :
          /\ inSize[c] > 18000
          /\ inSize[c] < 18000 + longestFftSize \div 2


\* C24: while the mode is not Finished a frame is processed only when
\* channel 0's input ring holds at least longestFftSize readable samples;
\* such a frame finds the input hop within the read space (the branch for
\* readSpace < inhop is not taken) and advances every input ring by exactly
\* the input hop
C24_WholeFrameBeforeFinished ==
    [][ (FrameStep /\ mode # "Finished") =>
          /\ lastFrame'.readSpace = inRead[1]
          /\ lastFrame'.readSpace >= longestFftSize
          /\ inhop <= lastFrame'.readSpace
          /\ lastFrame'.advanceCount = inhop
          /\ \A c \in Chans : inRead'[c] = inRead[c] - inhop ]_vars

\* Before the final block a frame has advanced the input by the hop and left
\* less than a frame behind: the loop is about to wait for more input
C24_Witness ==
    /\ pc = "consume"
    /\ mode = "Processing"
    /\ lastFrame.readSpace >= longestFftSize
    /\ lastFrame.advanceCount = inhop
    /\ inhop > 0
    /\ inRead[1] < longestFftSize
    /\ inRead[1] > 0


\* The drain rule for the frames of one consume(): accumulatorFill stays
\* within 0 .. longestFftSize; a frame with unread input sets it to
\* longestFftSize, a frame with the input ring empty lowers it by the output
\* hop, not below 0; no frame is processed once the mode is Finished, the
\* input ring is empty and the fill is 0
DrainFrames ==
    /\ [](\A c \in Chans : accumulatorFill[c] \in 0 .. longestFftSize)
    /\ [][FrameStep =>
            /\ \A c \in Chans :
                  accumulatorFill'[c] =
                      IF inRead[1] > 0 THEN longestFftSize
                      ELSE Max(accumulatorFill[c] - ctx.outhop, 0)
            /\ ~(mode = "Finished" /\ inRead[1] = 0
                 /\ accumulatorFill[1] = 0)]_vars

\* The drain is left unfinished between calls: the mode is Finished, the
\* input ring is empty and the accumulator still holds output
DrainPending ==
    /\ pc = "idle"
    /\ mode = "Finished"
    /\ inRead[1] = 0
    /\ accumulatorFill[1] > 0

\* C25: the drain rule: the frames of consume() keep accumulatorFill within
\* 0 .. longestFftSize as DrainFrames says, and once the mode is Finished and
\* the input ring is empty frames keep being processed while the output ring
\* has room for a hop, until the fill is 0: the drain is left unfinished
\* only while the output ring lacks room for an output hop
C25_DrainRule ==
    /\ DrainFrames
    /\ [](DrainPending => outRingBufferSize - outRead[1] < lastOuthop)


\* C26: every pass of the loop of consume() that processes a frame strictly
\* decreases the unread input or, with the input ring empty in mode
\* Finished, strictly decreases the longest scale's accumulatorFill, so that
\* every consume() ends
C26_FrameProgress ==
    [][ FrameStep =>
          \/ inRead'[1] < inRead[1]
          \/ /\ mode = "Finished"
             /\ inRead[1] = 0
             /\ accumulatorFill'[1] < accumulatorFill[1] ]_vars


(***************************************************************************)
(* Properties of the transient deferral, stated for SpecKick.              *)
(***************************************************************************)
\* The latest frame of channel c was a kick frame
KickFrameDone(c) == guidance[c].kick.present /\ ~guidance[c].preKick.present

\* C27: pendingKick is nonzero only between a pre-kick frame and its kick
\* frame: once a channel has processed a kick frame, every pendingKick entry
\* of every scale of the channel is zero, whatever the FFT size of the lowest
\* band and the pre-kick range of the frames were
C27_KickClearsPending ==
    \A c \in Chans :
       KickFrameDone(c) =>
          \A n \in KickFftSizes, i \in KickBins : pendingKick[c][n][i] = 0

\* C28: the pendingKick law: once a channel has processed a kick frame, what
\* the pre-kick frames have subtracted from mag[i] equals what the kick
\* frames have added back to it, for every scale and bin, also when several
\* pre-kick frames precede the kick frame
C28_KickRestoresAll ==
    \A c \in Chans :
       KickFrameDone(c) =>
          \A n \in KickFftSizes, i \in KickBins : kickBalance[c][n][i] = 0


\* C29: the resampler is called with its final flag set on one frame per
\* session only, the last frame of the drain after the final process call:
\* a frame that passes the flag leaves the input rings empty and the
\* accumulator drained, so that no frame follows it
C29_FlushOnLastFrame ==
    [][ (FrameStep /\ lastFrame'.final) =>
          /\ mode = "Finished"
          /\ inRead'[1] = 0
          /\ accumulatorFill'[1] = 0 ]_vars


\* C30: the unityCount a frame passes to the Guide is the number of
\* consecutive processed frames, ending with this one, whose effective ratio
\* is within 1e-7 of 1, for every channel alike: one more than the previous
\* frame passed when the ratio is that near to 1, and 0 when it is not
C30_UnityCountPerFrame ==
    [][ FrameStep =>
          \A c \in Chans :
             lastFrame'.unityCount[c] =
                IF NearUnity(ctx.ratio) THEN lastFrame.unityCount[c] + 1
                ELSE 0 ]_vars


(***************************************************************************)
(* C31: with setTimeRatio or setPitchScale running on another thread, each *)
(* consume() works from one consistent snapshot of the control values: the *)
(* input hop it took is the one calculateHop() derives from the time ratio *)
(* and pitch scale it took, and every frame of the call loads the same     *)
(* time ratio and pitch scale as the call did before its loop.             *)
(***************************************************************************)
C31_ConsistentSnapshot ==
    /\ [](pc = "consume" =>
             ctx.inhop \in StoredHops(ctx.ratio, <<1, 1>>))
    /\ [][FrameStep =>
             /\ pitchScale = ctx.pitchScale
             /\ getEffectiveRatio(timeRatio, pitchScale) = ctx.ratio]_vars


C33_ReadaheadReuse ==
    [][ FrameStep =>
          \A c \in Chans :
             /\ lastFrame'.reused[c]
                  <=> (haveReadahead[c] /\ ctx.inhop = readaheadHop)
             /\ haveReadahead'[c]
             /\ readaheadHop' = ctx.inhop ]_vars

\* A frame found a readahead made with another input hop, computed its
\* classification frame afresh and left a readahead of its own
C33_Witness ==
    /\ pc = "consume"
    /\ lastFrame.writeCount > 0
    /\ \A c \in Chans : /\ lastFrame.hadReadahead[c]
                        /\ ~lastFrame.reused[c]
                        /\ haveReadahead[c]
    /\ lastFrame.prevInhop # ctx.inhop
    /\ readaheadHop = ctx.inhop

=============================================================================
